---- MODULE Spec2Model ----
(***************************************************************************)
(* Model of puzzle.plugins.sql.store (class Store and select_plugin) and   *)
(* of puzzle.plugins.gemini.gemini_plugin (class GeminiPlugin).            *)
(*                                                                         *)
(* The relational database is two tables, `cases` and `individuals`; the   *)
(* shared scoped session is represented by the state of its transaction   *)
(* (`session`).  Text (database URIs) is a sequence of one-character       *)
(* strings, so that substring tests and path wrapping are computed.        *)
(***************************************************************************)
EXTENDS Integers, Sequences, FiniteSets, TLC

VARIABLES
    case_table,        \* table "case": set of committed rows
    individual_table,  \* table "individual": committed rows in insertion order
    session,           \* transaction state of Store.session: "active" | "inactive"
    filters,           \* Store.filters
    engine,            \* URL handed to create_engine (Store.engine)
    last               \* the last call made on the Store: operation, arguments, outcome

vars == <<case_table, individual_table, session, filters, engine, last>>

----------------------------------------------------------------------------
(* Bounds of the model *)

MaxCases == 2
MaxSkip == 1
MaxCount == 2
MaxPieces == 3

----------------------------------------------------------------------------
(* Values *)

None == "None"

mysql_txt == <<"m", "y", "s", "q", "l">>
scheme_sep == <<":", "/", "/">>
sqlite_prefix == <<"s", "q", "l", "i", "t", "e", ":", "/", "/", "/">>

\* os.getcwd() and the home directory of the process
Cwd == <<"/", "w">>
Home == <<"/", "h">>

----------------------------------------------------------------------------
(* Text helpers: Python's `in` on str, and the os.path functions connect uses *)

\* `sub in s`
Contains(s, sub) ==
    \E i \in 1..(Len(s) - Len(sub) + 1) : SubSeq(s, i, i + Len(sub) - 1) = sub

StartsWith(s, pre) == Len(s) >= Len(pre) /\ SubSeq(s, 1, Len(pre)) = pre

\* position of the first "/" of s at or after i, Len(s) + 1 when there is none
RECURSIVE FindSlash(_, _)
FindSlash(s, i) ==
    IF i > Len(s) THEN Len(s) + 1
    ELSE IF s[i] = "/" THEN i
    ELSE FindSlash(s, i + 1)

\* the non-empty components of a path, in order
RECURSIVE Components(_)
Components(s) ==
    IF s = <<>> THEN <<>>
    ELSE IF s[1] = "/" THEN Components(Tail(s))
    ELSE LET j == FindSlash(s, 1)
         IN  <<SubSeq(s, 1, j - 1)>> \o Components(SubSeq(s, j, Len(s)))

RECURSIVE JoinSlash(_)
JoinSlash(comps) ==
    IF comps = <<>> THEN <<>>
    ELSE IF Len(comps) = 1 THEN comps[1]
    ELSE comps[1] \o <<"/">> \o JoinSlash(Tail(comps))

\* posixpath.expanduser: "~" and "~/..." use the home directory; "~name" names
\* a user the password database does not know and is returned unchanged
expanduser(path) ==
    IF ~StartsWith(path, <<"~">>) THEN path
    ELSE LET i == FindSlash(path, 1)
         IN  IF i # 2 THEN path
             ELSE LET rest == SubSeq(path, i, Len(path))
                  IN  IF rest = <<>> THEN Home ELSE Home \o rest

\* posixpath.join(a, b)
path_join(a, b) ==
    IF StartsWith(b, <<"/">>) THEN b
    ELSE IF a = <<>> \/ a[Len(a)] = "/" THEN a \o b
    ELSE a \o <<"/">> \o b

\* posixpath.normpath for paths without "." and ".." components: runs of
\* slashes collapse, a trailing slash goes, exactly two leading slashes stay
normpath(path) ==
    LET initial == IF ~StartsWith(path, <<"/">>) THEN <<>>
                   ELSE IF StartsWith(path, <<"/", "/">>)
                           /\ ~StartsWith(path, <<"/", "/", "/">>)
                        THEN <<"/", "/">>
                   ELSE <<"/">>
        body == initial \o JoinSlash(Components(path))
    IN  IF body = <<>> THEN <<".">> ELSE body

\* posixpath.abspath
abspath(path) ==
    normpath(IF StartsWith(path, <<"/">>) THEN path ELSE path_join(Cwd, path))

----------------------------------------------------------------------------
(* Store.connect *)

NoEngine == [url |-> <<>>, pool_recycle |-> None]

\* the engine connect() creates for db_uri
connect(db_uri) ==
    IF Contains(db_uri, mysql_txt)
    THEN [url |-> db_uri, pool_recycle |-> "3600"]
    ELSE IF ~Contains(db_uri, scheme_sep)
    THEN [url |-> sqlite_prefix \o abspath(expanduser(db_uri)),
          pool_recycle |-> None]
    ELSE [url |-> db_uri, pool_recycle |-> None]

\* the location strings tried: up to MaxPieces pieces glued together
UriPieces == {mysql_txt, scheme_sep, <<"/">>, <<"d", "b">>, <<"~">>}

RECURSIVE UrisOf(_)
UrisOf(n) ==
    IF n = 0 THEN {<<>>}
    ELSE LET shorter == UrisOf(n - 1)
         IN  shorter \cup {u \o p : u \in shorter, p \in UriPieces}

InputUris == UrisOf(MaxPieces) \ {<<>>}

\* the location string the store of the main specification was opened with
StoreUri == <<"d", "b">>

----------------------------------------------------------------------------
(* Inputs of add_case: the structured case descriptions a caller passes *)

IndA == [ind_id |-> "fam1-1", mother |-> "0", father |-> "0", sex |-> "1",
         phenotype |-> "2", index |-> "0",
         variant_source |-> "/data/fam1.vcf", bam_path |-> "/bam/fam1-1.bam"]
IndB == [ind_id |-> "fam1-2", mother |-> "fam1-3", father |-> "fam1-1",
         sex |-> "2", phenotype |-> "1", index |-> "1",
         variant_source |-> "/data/fam1.vcf", bam_path |-> None]
IndC == [ind_id |-> "fam2-1", mother |-> "fam2-2", father |-> "0", sex |-> "2",
         phenotype |-> "2", index |-> "0",
         variant_source |-> "/data/fam2.db", bam_path |-> "/bam/fam2-1.bam"]

CaseFam1 ==
    [case_id |-> "fam1", name |-> "Family 1",
     variant_source |-> "/data/fam1.vcf", individuals |-> <<IndA, IndB>>]
CaseFam1Again ==
    [case_id |-> "fam1", name |-> "Family 1 again",
     variant_source |-> "/data/missing.db", individuals |-> <<IndB>>]
CaseFam2 ==
    [case_id |-> "fam2", name |-> "Family 2",
     variant_source |-> "/data/fam2.db", individuals |-> <<IndC>>]
CaseNamedUnknown ==
    [case_id |-> "unknown", name |-> "unknown",
     variant_source |-> "/data/fam2.db", individuals |-> <<>>]

\* the calls add_case(case_obj, vtype, mode) tried; the first uses the defaults
AddArgs ==
    { <<CaseFam1, "snv", "vcf">>,
      <<CaseFam1Again, "sv", "gemini">>,
      <<CaseFam2, "sv", "gemini">>,
      <<CaseFam2, "snv", "unknown_mode">>,
      <<CaseNamedUnknown, "snv", "vcf">> }

CaseIds == {a[1].case_id : a \in AddArgs}
IndIds == {"fam1-1", "fam2-1", "fam9-9"}

----------------------------------------------------------------------------
(* puzzle.models.sql rows and puzzle.models placeholders *)

\* the row add_case builds for the case description
CaseRow(case_obj, vtype, mode, ped_svg) ==
    [case_id |-> case_obj.case_id,
     name |-> case_obj.name,
     variant_source |-> case_obj.variant_source,
     variant_type |-> vtype,
     variant_mode |-> mode,
     pedigree |-> ped_svg]

\* IndRow with the parents exchanged
IndRow_parents_swapped(owner, ind) ==
    [case |-> owner,
     ind_id |-> ind.ind_id,
     mother |-> ind.father,
     father |-> ind.mother,
     sex |-> ind.sex,
     phenotype |-> ind.phenotype,
     ind_index |-> ind.index,
     variant_source |-> ind.variant_source,
     bam_path |-> ind.bam_path]

\* the row add_case builds for one individual of the case `owner`
IndRow(owner, ind) ==
    [case |-> owner,
     ind_id |-> ind.ind_id,
     mother |-> ind.mother,
     father |-> ind.father,
     sex |-> ind.sex,
     phenotype |-> ind.phenotype,
     ind_index |-> ind.index,
     variant_source |-> ind.variant_source,
     bam_path |-> ind.bam_path]

IndRows(owner, inds) == [i \in 1..Len(inds) |-> IndRow(owner, inds[i])]

\* BaseCase(case_id='unknown'): only the identifier is populated
UnknownCase ==
    [case_id |-> "unknown", name |-> None, variant_source |-> None,
     variant_type |-> None, variant_mode |-> None, pedigree |-> None,
     individuals |-> <<>>]

\* BaseIndividual(ind_id='unknown'): only the identifier is populated
UnknownIndividual ==
    [case |-> None, ind_id |-> "unknown", mother |-> None, father |-> None,
     sex |-> None, phenotype |-> None, ind_index |-> None,
     variant_source |-> None, bam_path |-> None]

\* the relationship Case.individuals: the rows of the case, in table order
CaseIndividuals(inds, case_id) == SelectSeq(inds, LAMBDA r : r.case = case_id)

\* a case row as the ORM object callers see, with its individuals loaded
CaseObj(row, inds) ==
    [case_id |-> row.case_id, name |-> row.name,
     variant_source |-> row.variant_source,
     variant_type |-> row.variant_type,
     variant_mode |-> row.variant_mode,
     pedigree |-> row.pedigree,
     individuals |-> CaseIndividuals(inds, row.case_id)]

\* the column values of a case object
RowOf(case_obj) ==
    [case_id |-> case_obj.case_id, name |-> case_obj.name,
     variant_source |-> case_obj.variant_source,
     variant_type |-> case_obj.variant_type,
     variant_mode |-> case_obj.variant_mode,
     pedigree |-> case_obj.pedigree]

SeqToSet(q) == {q[i] : i \in 1..Len(q)}

\* the rows of a table in the order a query without ORDER BY yields them
RECURSIVE SetToSeq(_)
SetToSeq(rows) ==
    IF rows = {} THEN <<>>
    ELSE LET r == CHOOSE x \in rows : TRUE
         IN  <<r>> \o SetToSeq(rows \ {r})

----------------------------------------------------------------------------
(* The database behind the session.  A store state st is                   *)
(* [cases, individuals, session]: the committed tables and the state of    *)
(* the session's transaction.                                              *)

\* the unit of work of a save that adds and deletes nothing
NoWork == [add_cases |-> {}, add_inds |-> <<>>, del_cases |-> {}, del_inds |-> {}]

\* the unique constraint on case.case_id is violated by flushing `work`
ViolatesUnique(st, work) ==
    \E n \in work.add_cases :
        \E c \in st.cases \ work.del_cases : c.case_id = n.case_id

\* Store.save with `work` pending in the session: flush, then commit.
\* `lost` says the connection is lost during this save.  A failed flush or
\* commit rolls the transaction back and leaves the session refusing work
\* until rollback() is called, which the Store never does.
save(st, work, lost) ==
    IF st.session = "inactive"
    THEN [st |-> st, raised |-> "InvalidRequestError"]
    ELSE IF ViolatesUnique(st, work)
    THEN [st |-> [st EXCEPT !.session = "inactive"],
          raised |-> "IntegrityError"]
    ELSE IF lost
    THEN [st |-> [st EXCEPT !.session = "inactive"],
          raised |-> "OperationalError"]
    ELSE [st |-> [cases |-> (st.cases \ work.del_cases) \cup work.add_cases,
                  individuals |->
                      SelectSeq(st.individuals,
                                LAMBDA r : r \notin work.del_inds)
                      \o work.add_inds,
                  session |-> "active"],
          raised |-> None]

----------------------------------------------------------------------------
(* Store: metadata operations.  Each returns [st, raised, ret]. *)

add_case(st, case_obj, vtype, mode, ped_svg, lost) ==
    LET new_case == CaseRow(case_obj, vtype, mode, ped_svg)
        inds == IndRows(case_obj.case_id, case_obj.individuals)
        r == save(st, [NoWork EXCEPT !.add_cases = {new_case},
                                     !.add_inds = inds], lost)
    IN  [st |-> r.st, raised |-> r.raised,
         ret |-> IF r.raised = None
                 THEN CaseObj(new_case, r.st.individuals) ELSE None]

delete_individual(st, ind_obj, lost) ==
    LET r == save(st, [NoWork EXCEPT !.del_inds = {ind_obj}], lost)
    IN  [st |-> r.st, raised |-> r.raised,
         ret |-> IF r.raised = None THEN ind_obj ELSE None]

\* the loop of delete_case over the individuals left to delete; the k-th
\* save of the call is the one that loses the connection when k = failAt
RECURSIVE delete_case_loop(_, _, _, _)
delete_case_loop(st, inds, k, failAt) ==
    IF inds = <<>> THEN [st |-> st, raised |-> None, k |-> k]
    ELSE LET r == delete_individual(st, Head(inds), k = failAt)
         IN  IF r.raised # None
             THEN [st |-> r.st, raised |-> r.raised, k |-> k]
             ELSE delete_case_loop(r.st, Tail(inds), k + 1, failAt)

\* delete_case without the loop over the individuals
delete_case_without_cascade(st, case_obj, failAt) ==
    LET r == save(st, [NoWork EXCEPT !.del_cases = {RowOf(case_obj)}],
                  failAt = 1)
    IN  [st |-> r.st, raised |-> r.raised,
         ret |-> IF r.raised = None THEN case_obj ELSE None]

delete_case(st, case_obj, failAt) ==
    LET loop == delete_case_loop(st, case_obj.individuals, 1, failAt)
    IN  IF loop.raised # None
        THEN [st |-> loop.st, raised |-> loop.raised, ret |-> None]
        ELSE LET r == save(loop.st,
                           [NoWork EXCEPT !.del_cases = {RowOf(case_obj)}],
                           loop.k = failAt)
             IN  [st |-> r.st, raised |-> r.raised,
                  ret |-> IF r.raised = None THEN case_obj ELSE None]

\* Store.case: a query on an inactive session raises
case(st, case_id) ==
    IF st.session = "inactive"
    THEN [raised |-> "InvalidRequestError", ret |-> None]
    ELSE LET found == {c \in st.cases : c.case_id = case_id}
         IN  [raised |-> None,
              ret |-> IF found = {} THEN UnknownCase
                      ELSE CaseObj(CHOOSE c \in found : TRUE, st.individuals)]

\* Store.individual: the first row with the identifier
individual(st, ind_id) ==
    IF st.session = "inactive"
    THEN [raised |-> "InvalidRequestError", ret |-> None]
    ELSE LET found == SelectSeq(st.individuals, LAMBDA r : r.ind_id = ind_id)
         IN  [raised |-> None,
              ret |-> IF found = <<>> THEN UnknownIndividual ELSE Head(found)]

\* Store.cases, iterated
cases(st) ==
    IF st.session = "inactive"
    THEN [raised |-> "InvalidRequestError", ret |-> None]
    ELSE [raised |-> None,
          ret |-> [i \in 1..Cardinality(st.cases) |->
                      CaseObj(SetToSeq(st.cases)[i], st.individuals)]]

\* Store.individuals, iterated; ind_ids is a set, empty for "all"
individuals(st, ind_ids) ==
    IF st.session = "inactive"
    THEN [raised |-> "InvalidRequestError", ret |-> None]
    ELSE [raised |-> None,
          ret |-> IF ind_ids = {} THEN st.individuals
                  ELSE SelectSeq(st.individuals,
                                 LAMBDA r : r.ind_id \in ind_ids)]

\* Store.set_up: with reset the tables are dropped, then created again
set_up(st, reset) ==
    IF reset THEN [st EXCEPT !.cases = {}, !.individuals = <<>>] ELSE st

----------------------------------------------------------------------------
(* The variant sources on disk and the two adapters *)

\* the files that are gemini databases
GeminiDbs == {"/data/fam2.db"}

\* the variants a source holds, in source order
SourceVariants(source) ==
    IF source = "/data/fam1.vcf"
    THEN << [variant_id |-> "v1", gene |-> "G1"],
            [variant_id |-> "v2", gene |-> "G2"],
            [variant_id |-> "v3", gene |-> "G1"] >>
    ELSE IF source = "/data/fam2.db"
    THEN << [variant_id |-> "w1", gene |-> "G2"],
            [variant_id |-> "w2", gene |-> "G1"] >>
    ELSE <<>>

VariantIds == {"v1", "nonexistent-id"}
FilterArgs == { [gene |-> None], [gene |-> "G1"] }

\* Plugin.filters: the capability flags an adapter of this kind declares
PluginFilters(kind) ==
    IF kind = "GeminiPlugin"
    THEN {"can_filter_gene", "can_filter_frequency", "can_filter_cadd",
          "can_filter_consequence"}
    ELSE IF kind = "VcfPlugin"
    THEN {"can_filter_gene", "can_filter_frequency", "can_filter_cadd",
          "can_filter_consequence", "can_filter_inheritance"}
    ELSE {}

\* CaseMixin._get_individuals of the gemini adapter: the samples of the database
gemini_get_individuals(db) ==
    IF db = "/data/fam2.db"
    THEN << [case |-> "fam2", ind_id |-> "fam2-1", mother |-> "0",
             father |-> "0", sex |-> "2", phenotype |-> "2",
             ind_index |-> "0", variant_source |-> db, bam_path |-> None] >>
    ELSE <<>>

\* CaseMixin._get_cases of the gemini adapter: one case per family of the
\* individuals read from the database
gemini_get_cases(db, vtype, inds) ==
    IF inds = <<>> THEN <<>>
    ELSE << [case_id |-> inds[1].case, name |-> inds[1].case,
             variant_source |-> db, variant_type |-> vtype,
             variant_mode |-> "gemini", pedigree |-> None,
             individuals |-> inds] >>

\* test_gemini_db with the failure of the probe swallowed
test_gemini_db_swallowed(db) == None

\* GeminiPlugin.test_gemini_db: GeminiQuery(self.db) raises its own error on
\* a handle that is no gemini database
test_gemini_db(db) == IF db \in GeminiDbs THEN None ELSE "GeminiQueryError"

NoPlugin ==
    [kind |-> None, db |-> None, variant_type |-> None, individuals |-> <<>>,
     case_objs |-> <<>>, filters |-> {}]

\* GeminiPlugin.__init__: [raised, plugin]
GeminiPlugin(db, vtype) ==
    IF test_gemini_db(db) # None
    THEN [raised |-> test_gemini_db(db), plugin |-> NoPlugin]
    ELSE LET inds == gemini_get_individuals(db)
         IN  [raised |-> None,
              plugin |-> [kind |-> "GeminiPlugin", db |-> db,
                          variant_type |-> vtype,
                          individuals |-> inds,
                          case_objs |-> gemini_get_cases(db, vtype, inds),
                          filters |-> PluginFilters("GeminiPlugin")]]

\* VcfPlugin(root_path, vtype)
VcfPlugin(root_path, vtype) ==
    [raised |-> None,
     plugin |-> [kind |-> "VcfPlugin", db |-> root_path,
                 variant_type |-> vtype, individuals |-> <<>>,
                 case_objs |-> <<>>,
                 filters |-> PluginFilters("VcfPlugin")]]

\* select_plugin: [raised, plugin, case_id].  With neither mode the name
\* `plugin` is unbound at the return statement.
select_plugin(case_obj) ==
    IF case_obj.variant_mode = "vcf"
    THEN LET p == VcfPlugin(case_obj.variant_source, case_obj.variant_type)
         IN  [raised |-> p.raised,
              plugin |-> [p.plugin EXCEPT !.case_objs = <<case_obj>>],
              case_id |-> case_obj.case_id]
    ELSE IF case_obj.variant_mode = "gemini"
    THEN LET p == GeminiPlugin(case_obj.variant_source, case_obj.variant_type)
         IN  [raised |-> p.raised, plugin |-> p.plugin,
              case_id |-> IF p.raised = None THEN case_obj.case_id ELSE None]
    ELSE [raised |-> "UnboundLocalError", plugin |-> NoPlugin, case_id |-> None]

Min(a, b) == IF a < b THEN a ELSE b

\* the adapter's variants(case_id, skip, count, filters)
plugin_variants(plugin, case_id, skip, count, fltr) ==
    LET all == SourceVariants(plugin.db)
        kept == IF fltr.gene = None THEN all
                ELSE SelectSeq(all, LAMBDA v : v.gene = fltr.gene)
    IN  SubSeq(kept, skip + 1, Min(skip + count, Len(kept)))

\* what the adapter's variant() answers for an identifier it does not hold
NotFound == [variant_id |-> None, gene |-> None]

\* the adapter's variant(case_id, variant_id)
plugin_variant(plugin, case_id, variant_id) ==
    LET hit == SelectSeq(SourceVariants(plugin.db),
                         LAMBDA v : v.variant_id = variant_id)
    IN  IF hit = <<>> THEN NotFound ELSE Head(hit)

NoCall == [case_id |-> None, skip |-> 0, count |-> 0, filters |-> [gene |-> None]]

\* variants without the assignment to self.filters
variants_without_filters(st, own, case_id, skip, count, fltr) ==
    LET c == case(st, case_id)
        sp == select_plugin(c.ret)
    IN  IF c.raised # None \/ sp.raised # None
        THEN [raised |-> IF c.raised # None THEN c.raised ELSE sp.raised,
              ret |-> None, filters |-> own, plugin |-> NoPlugin,
              call |-> NoCall]
        ELSE [raised |-> None,
              ret |-> plugin_variants(sp.plugin, sp.case_id, skip, count, fltr),
              filters |-> own,
              plugin |-> sp.plugin,
              call |-> [case_id |-> sp.case_id, skip |-> skip,
                        count |-> count, filters |-> fltr]]

\* Store.variants: [raised, ret, filters, plugin, call]; `own` is the
\* Store's filters attribute before the call
variants(st, own, case_id, skip, count, fltr) ==
    LET c == case(st, case_id)
    IN  IF c.raised # None
        THEN [raised |-> c.raised, ret |-> None, filters |-> own,
              plugin |-> NoPlugin, call |-> NoCall]
        ELSE LET sp == select_plugin(c.ret)
             IN  IF sp.raised # None
                 THEN [raised |-> sp.raised, ret |-> None, filters |-> own,
                       plugin |-> NoPlugin, call |-> NoCall]
                 ELSE [raised |-> None,
                       ret |-> plugin_variants(sp.plugin, sp.case_id, skip,
                                               count, fltr),
                       filters |-> sp.plugin.filters,
                       plugin |-> sp.plugin,
                       call |-> [case_id |-> sp.case_id, skip |-> skip,
                                 count |-> count, filters |-> fltr]]

\* Store.variant: [raised, ret, plugin]
variant(st, case_id, variant_id) ==
    LET c == case(st, case_id)
    IN  IF c.raised # None
        THEN [raised |-> c.raised, ret |-> None, plugin |-> NoPlugin]
        ELSE LET sp == select_plugin(c.ret)
             IN  IF sp.raised # None
                 THEN [raised |-> sp.raised, ret |-> None, plugin |-> NoPlugin]
                 ELSE [raised |-> None,
                       ret |-> plugin_variant(sp.plugin, sp.case_id, variant_id),
                       plugin |-> sp.plugin]

----------------------------------------------------------------------------
(* The state machine *)

\* the store state the operations read
St == [cases |-> case_table, individuals |-> individual_table,
       session |-> session]

NoArgs == [none |-> None]

\* what a call returned, as recorded in `last`: nothing when it raised
Returned(r) == IF r.raised # None THEN <<>> ELSE <<r.ret>>

\* the same for a call that returns a sequence
ReturnedSeq(r) == IF r.raised # None THEN <<>> ELSE r.ret

Called(op, args, raised, ret, plugin, call) ==
    [op |-> op, args |-> args, raised |-> raised, ret |-> ret,
     plugin |-> plugin, call |-> call]

\* Store(uri=StoreUri).set_up(): connected, tables created and empty
Init ==
    /\ case_table = {}
    /\ individual_table = <<>>
    /\ session = "active"
    /\ filters = PluginFilters("Store")
    /\ engine = connect(StoreUri)
    /\ last = Called("init", NoArgs, None, <<>>, NoPlugin, NoCall)

SetUp ==
    \E reset \in BOOLEAN :
        LET st == set_up(St, reset)
        IN  /\ case_table' = st.cases
            /\ individual_table' = st.individuals
            /\ last' = Called("set_up", [reset |-> reset], None, <<>>,
                              NoPlugin, NoCall)
            /\ UNCHANGED <<session, filters, engine>>

AddCase ==
    \E a \in AddArgs, lost \in BOOLEAN :
        LET r == add_case(St, a[1], a[2], a[3], None, lost)
        IN  /\ r.raised # None \/ Cardinality(case_table) < MaxCases
            /\ case_table' = r.st.cases
            /\ individual_table' = r.st.individuals
            /\ session' = r.st.session
            /\ last' = Called("add_case",
                              [case_obj |-> a[1], vtype |-> a[2], mode |-> a[3]],
                              r.raised, Returned(r), NoPlugin, NoCall)
            /\ UNCHANGED <<filters, engine>>

DeleteCase ==
    \E row \in case_table :
        LET c == CaseObj(row, individual_table)
        IN  \E failAt \in 0..(Len(c.individuals) + 1) :
                LET r == delete_case(St, c, failAt)
                IN  /\ case_table' = r.st.cases
                    /\ individual_table' = r.st.individuals
                    /\ session' = r.st.session
                    /\ last' = Called("delete_case", [case_obj |-> c],
                                      r.raised, Returned(r), NoPlugin, NoCall)
                    /\ UNCHANGED <<filters, engine>>

DeleteIndividual ==
    \E i \in 1..Len(individual_table), lost \in BOOLEAN :
        LET r == delete_individual(St, individual_table[i], lost)
        IN  /\ case_table' = r.st.cases
            /\ individual_table' = r.st.individuals
            /\ session' = r.st.session
            /\ last' = Called("delete_individual",
                              [ind_obj |-> individual_table[i]],
                              r.raised, Returned(r), NoPlugin, NoCall)
            /\ UNCHANGED <<filters, engine>>

Case ==
    \E id \in CaseIds :
        LET r == case(St, id)
        IN  /\ last' = Called("case", [case_id |-> id], r.raised, Returned(r),
                              NoPlugin, NoCall)
            /\ UNCHANGED <<case_table, individual_table, session, filters,
                           engine>>

Individual ==
    \E id \in IndIds :
        LET r == individual(St, id)
        IN  /\ last' = Called("individual", [ind_id |-> id], r.raised, Returned(r),
                              NoPlugin, NoCall)
            /\ UNCHANGED <<case_table, individual_table, session, filters,
                           engine>>

Cases ==
    LET r == cases(St)
    IN  /\ last' = Called("cases", NoArgs, r.raised, ReturnedSeq(r), NoPlugin,
                          NoCall)
        /\ UNCHANGED <<case_table, individual_table, session, filters, engine>>

Individuals ==
    \E ids \in {{}, {"fam1-1"}} :
        LET r == individuals(St, ids)
        IN  /\ last' = Called("individuals", [ind_ids |-> ids], r.raised,
                              ReturnedSeq(r), NoPlugin, NoCall)
            /\ UNCHANGED <<case_table, individual_table, session, filters,
                           engine>>

SelectPlugin ==
    \E c \in {CaseObj(row, individual_table) : row \in case_table} :
        LET r == select_plugin(c)
        IN  /\ last' = Called("select_plugin", [case_obj |-> c], r.raised,
                              IF r.raised # None THEN <<>>
                              ELSE <<[case_id |-> r.case_id]>>,
                              r.plugin, NoCall)
            /\ UNCHANGED <<case_table, individual_table, session, filters,
                           engine>>

Variants ==
    \E id \in CaseIds, skip \in 0..MaxSkip, count \in 1..MaxCount,
       fltr \in FilterArgs :
        LET r == variants(St, filters, id, skip, count, fltr)
        IN  /\ filters' = r.filters
            /\ last' = Called("variants",
                              [case_id |-> id, skip |-> skip, count |-> count,
                               filters |-> fltr],
                              r.raised, ReturnedSeq(r), r.plugin, r.call)
            /\ UNCHANGED <<case_table, individual_table, session, engine>>

Variant ==
    \E id \in CaseIds, vid \in VariantIds :
        LET r == variant(St, id, vid)
        IN  /\ last' = Called("variant", [case_id |-> id, variant_id |-> vid],
                              r.raised, Returned(r), r.plugin, NoCall)
            /\ UNCHANGED <<case_table, individual_table, session, filters,
                           engine>>

Next ==
    \/ SetUp
    \/ AddCase
    \/ DeleteCase
    \/ DeleteIndividual
    \/ Case
    \/ Individual
    \/ Cases
    \/ Individuals
    \/ SelectPlugin
    \/ Variants
    \/ Variant

Spec == Init /\ [][Next]_vars

----------------------------------------------------------------------------
(* The connection step on its own: Store() with no uri, then connect(uri) *)

InitConnect ==
    /\ case_table = {}
    /\ individual_table = <<>>
    /\ session = "none"
    /\ filters = PluginFilters("Store")
    /\ engine = NoEngine
    /\ last = Called("init", NoArgs, None, <<>>, NoPlugin, NoCall)

Connect ==
    \E uri \in InputUris :
        /\ engine' = connect(uri)
        /\ session' = "active"
        /\ last' = Called("connect", [db_uri |-> uri], None, <<>>, NoPlugin,
                          NoCall)
        /\ UNCHANGED <<case_table, individual_table, filters>>

NextConnect == Connect

SpecConnect == InitConnect /\ [][NextConnect]_vars

----------------------------------------------------------------------------
(* Properties *)

Stored(case_id) == \E c \in case_table : c.case_id = case_id

StoredRow(case_id) == CHOOSE c \in case_table : c.case_id = case_id

StoredInd(ind_id) ==
    \E i \in 1..Len(individual_table) : individual_table[i].ind_id = ind_id

\* C1: select_plugin routes on variant_mode alone: "vcf" gives a VcfPlugin,
\* "gemini" a GeminiPlugin, and any other mode fails with UnsupportedBackend
\* and returns no adapter.
C1_RoutesOrUnsupported ==
    last.op = "select_plugin" =>
        LET mode == last.args.case_obj.variant_mode
        IN  /\ mode = "vcf" =>
                last.raised = None /\ last.plugin.kind = "VcfPlugin"
            /\ mode = "gemini" =>
                (last.raised = None => last.plugin.kind = "GeminiPlugin")
            /\ mode \notin {"vcf", "gemini"} =>
                last.raised = "UnsupportedBackend" /\ last.plugin = NoPlugin

\* every individual row belongs to a stored case
NoOrphans ==
    \A i \in 1..Len(individual_table) : Stored(individual_table[i].case)

\* C2: delete_case is all or nothing: after the call, failed or not, the
\* case and all the individuals it had are stored, or none of them is; and
\* no individual is ever stored without its case.
C2_DeleteCaseAtomic ==
    /\ NoOrphans
    /\ last.op = "delete_case" =>
        LET c == last.args.case_obj
            had == SeqToSet(c.individuals)
            now == SeqToSet(individual_table)
        IN  \/ RowOf(c) \in case_table /\ had \subseteq now
            \/ RowOf(c) \notin case_table /\ had \cap now = {}

\* what C3 says of a step that is a successful delete_case(c), with the
\* identifier of the looked-up sentinel required to differ when `strict`
DeleteCaseThenLookup(strict) ==
    (last'.op = "delete_case" /\ last'.raised = None) =>
        LET c == last'.args.case_obj
            got == case(St', c.case_id)
            rest == individuals(St', {})
        IN  /\ got.raised = None
            /\ got.ret = UnknownCase
            /\ (strict \/ c.case_id # "unknown") => got.ret.case_id # c.case_id
            /\ rest.raised = None
            /\ \A i \in 1..Len(c.individuals) :
                   c.individuals[i] \notin SeqToSet(rest.ret)
            /\ last'.ret = <<c>>
            /\ case_table' = case_table \ {RowOf(c)}
            /\ individual_table' =
                   SelectSeq(individual_table, LAMBDA r : r.case # c.case_id)

\* C3 as stated: after a successful delete_case(c), case(c.case_id) is the
\* "unknown" sentinel and its identifier differs from c.case_id, individuals()
\* holds none of c's individuals, c is returned, the other cases and their
\* individuals are unchanged.
C3_AsClaimed == [][DeleteCaseThenLookup(TRUE)]_vars

\* C3 amended: the same, but the sentinel's identifier "unknown" differs from
\* c.case_id only when c.case_id is not itself "unknown".
C3_DeleteThenUnknown == [][DeleteCaseThenLookup(FALSE)]_vars

C3_Witness ==
    /\ last.op = "delete_case"
    /\ last.raised = None
    /\ Len(last.args.case_obj.individuals) = 2
    /\ case_table # {}
    /\ individual_table # <<>>

\* C4: after a successful add_case, case(case_id) returns the input: case_id,
\* name, variant_source as given, variant_type and variant_mode the vtype and
\* mode arguments, and the individuals of the input, field by field, in order.
C4_AddCaseRoundTrip ==
    (last.op = "add_case" /\ last.raised = None) =>
        LET d == last.args.case_obj
            got == case(St, d.case_id)
        IN  /\ got.raised = None
            /\ got.ret.case_id = d.case_id
            /\ got.ret.name = d.name
            /\ got.ret.variant_source = d.variant_source
            /\ got.ret.variant_type = last.args.vtype
            /\ got.ret.variant_mode = last.args.mode
            /\ Len(got.ret.individuals) = Len(d.individuals)
            /\ \A i \in 1..Len(d.individuals) :
                   LET g == got.ret.individuals[i]
                       w == d.individuals[i]
                   IN  /\ g.ind_id = w.ind_id
                       /\ g.mother = w.mother
                       /\ g.father = w.father
                       /\ g.sex = w.sex
                       /\ g.phenotype = w.phenotype
                       /\ g.ind_index = w.index
                       /\ g.variant_source = w.variant_source
                       /\ g.bam_path = w.bam_path

C4_Witness ==
    /\ last.op = "add_case"
    /\ last.raised = None
    /\ Len(last.args.case_obj.individuals) = 2
    /\ Cardinality(case_table) = 2

\* C5: a lookup of an identifier that is not stored raises nothing and
\* returns the "unknown" placeholder, never None.
C5_MissIsNoError ==
    /\ (last.op = "case" /\ ~Stored(last.args.case_id)) =>
           (last.raised = None /\ last.ret = <<UnknownCase>>)
    /\ (last.op = "individual" /\ ~StoredInd(last.args.ind_id)) =>
           (last.raised = None /\ last.ret = <<UnknownIndividual>>)

\* the case the last call resolved was found, asks for the gemini adapter
\* and names a handle that is no gemini database
BadGeminiHandle(case_obj) ==
    /\ case_obj.variant_mode = "gemini"
    /\ case_obj.variant_source \notin GeminiDbs

\* the last call tried to construct an adapter for a stored case with a bad
\* gemini handle: select_plugin on it, or variants / variant once the case
\* was fetched
ConstructsOnBadHandle ==
    \/ last.op = "select_plugin" /\ BadGeminiHandle(last.args.case_obj)
    \/ /\ last.op \in {"variants", "variant"}
       /\ case(St, last.args.case_id).raised = None
       /\ Stored(last.args.case_id)
       /\ BadGeminiHandle(StoredRow(last.args.case_id))

C8_FailedAddLeavesNoTrace ==
    [][ (last'.op = "add_case" /\ last'.raised = "IntegrityError") =>
          /\ case_table' = case_table
          /\ individual_table' = individual_table
          /\ \A id \in CaseIds : case(St', id).raised = case(St, id).raised
          /\ \A a \in AddArgs :
                 add_case(St', a[1], a[2], a[3], None, FALSE).raised
                     = add_case(St, a[1], a[2], a[3], None, FALSE).raised
      ]_vars

\* C9: the adapter select_plugin returns holds no metadata of its own: its
\* case list is the one case passed in (vcf), and a gemini adapter has built
\* neither individuals nor cases from the gemini database.
C9_NoOwnMetadata ==
    (last.op = "select_plugin" /\ last.raised = None) =>
        /\ last.plugin.kind = "VcfPlugin" =>
               last.plugin.case_objs = <<last.args.case_obj>>
        /\ last.plugin.kind = "GeminiPlugin" =>
               /\ last.plugin.individuals = <<>>
               /\ last.plugin.case_objs \in {<<>>, <<last.args.case_obj>>}

\* C10: connect passes a location with a scheme separator to the engine
\* unchanged, and turns every other location, "mysql" in its text or not,
\* into sqlite:/// followed by the absolute path.
C10_TwoAddressFamilies ==
    last.op = "connect" =>
        LET db_uri == last.args.db_uri
        IN  IF Contains(db_uri, scheme_sep)
            THEN engine.url = db_uri
            ELSE engine.url = sqlite_prefix \o abspath(expanduser(db_uri))

====
